---- MODULE Spec2Model ----
(***************************************************************************)
(* Verification model of the LinkedIn MCP server's orchestration core:     *)
(* the problem detector, the session scheduler, the browser lifecycle      *)
(* behind the tool-call dispatcher, and the operation handlers.            *)
(*                                                                         *)
(* The module holds four specifications over one set of variables:         *)
(*   SpecDetector  - the detector's classification of a page               *)
(*   SpecSession   - SessionManager.beforeAction / afterAction over time   *)
(*   SpecDispatch  - getBrowserManager / initialize under interleaved      *)
(*                   tool calls                                            *)
(*   SpecHandlers  - one handler invocation at a time, step by step        *)
(*   SpecClose     - BrowserManager.close against contexts that may already *)
(*                   be gone                                               *)
(*   SpecCleanup   - SIGINT / SIGTERM and cleanup(), with fairness         *)
(*   SpecDelay     - loadConfig's delay ranges and randomDelay             *)
(*   SpecRest      - beforeAction step by step, called by tool calls that  *)
(*                   the dispatcher lets overlap                           *)
(* Each specification leaves the other groups of variables at rest.        *)
(***************************************************************************)
EXTENDS Integers, Sequences, FiniteSets, TLC

VARIABLES
  \* --- detector ---
  dpage,            \* the page handed to the detector
  verdict,          \* what detectProblems returned for it ("unset" before)
  \* --- session scheduler ---
  cfg,              \* config.delays.betweenActions / config.session
  now,              \* Date.now()
  lastActionTime,   \* SessionManager.lastActionTime
  sessionStartTime, \* SessionManager.sessionStartTime
  actionsCount,     \* SessionManager.actionsCount
  phase,            \* "idle" | "acting" (between beforeAction and afterAction)
  calledAt,         \* instant of the last beforeAction call (-1: none)
  restDue,          \* the rest condition held at that call
  retPrev,          \* instant the beforeAction before the last returned (-1: none)
  retLast,          \* instant the last beforeAction returned (-1: none)
  \* --- dispatcher and browser lifecycle ---
  browserManager,   \* the singleton: "null" | "set"
  mgr,              \* BrowserManager fields: isInitialized, context, page
  launched,         \* number of contexts launched so far (ids 1..launched)
  alive,            \* ids of the contexts whose browser still responds
  callPc,           \* per tool call: its position in the dispatcher
  handed,           \* per tool call: the page the handler was given (0: none)
  staleHanded,      \* per tool call: that page had died while no call ran
  diedIdle,         \* the held page died while no tool call was in flight
  reply,            \* per tool call: what the dispatcher answered ("none" before)
  \* --- operation handlers ---
  build,            \* which BrowserManager source is compiled in (see Builds)
  hasPage,          \* the manager handed to the handler holds a page
  page,             \* what the detector would observe of the page now
  curUrl,           \* where the page is: "feed" | "target" | "lookalike"
  inv,              \* the handler invocation in progress (see IdleInv)
  \* --- BrowserManager.close ---
  closeThrew,       \* the last close() call threw
  lastOp,           \* the last call on the manager: "none" | "initialize" | "close"
  closesInRow,      \* close() calls since the last initialize
  \* --- process signals and cleanup ---
  exitedBy,         \* how the process ended: "none" | "cleanup" | "crash"
  cleanupPc,        \* per signal: where its cleanup() call stands
  initPc,           \* where the one initialize() call stands
  \* --- delay configuration ---
  delayRange,       \* a configured delay range, before the session factor
  speedFactor,      \* sessionSpeedFactor, in percent
  delay,            \* the last value randomDelay produced (-1: none)
  \* --- beforeAction under overlapping tool calls ---
  caller,           \* per tool call: where its beforeAction call stands
  prevRestEnd,      \* instant the rest before the last ended (-1: none)
  lastRestEnd       \* instant the last rest ended (-1: none)

dvars == <<dpage, verdict>>
svars == <<cfg, now, lastActionTime, sessionStartTime, actionsCount, phase,
           calledAt, restDue, retPrev, retLast>>
lvars == <<browserManager, mgr, launched, alive, callPc, handed, staleHanded,
           diedIdle, reply>>
hvars == <<build, hasPage, page, curUrl, inv>>
pvars == <<exitedBy, cleanupPc, initPc>>
rvars == <<delayRange, speedFactor, delay>>
bvars == <<caller, prevRestEnd, lastRestEnd>>
cvars == <<closeThrew, lastOp, closesInRow, pvars, rvars, bvars>>
vars == <<dvars, svars, lvars, hvars, cvars>>

(***************************************************************************)
(* Problem detector                                                        *)
(***************************************************************************)

\* What the detector can observe of a page.  dead: every DOM query throws
\* (the page or browser is gone); page.url() still answers.
PageFields ==
  {"urlAuthPath", "loginFormVisible", "loginText", "navBar",
   "captchaElem", "captchaText", "rateElem", "rateText", "dead",
   "hintThrows"}

Pages == [PageFields -> BOOLEAN]

CleanPage == [f \in PageFields |-> f = "navBar"]

\* detectLoginRequired without the look for .global-nav: the phrase alone
\* decides.
detectLoginRequiredTextOnly(p) ==
  \/ p.urlAuthPath
  \/ ~p.dead /\ p.loginFormVisible
  \/ ~p.dead /\ p.loginText

\* loginwall: URL pattern, OR visible login/join container, OR
\* (authentication phrase in the body text AND no .global-nav).
\* A throwing page.$ is swallowed per selector; a throwing textContent or
\* nav-bar query ends the text check with false.
detectLoginRequired(p) ==
  \/ p.urlAuthPath
  \/ ~p.dead /\ p.loginFormVisible
  \/ ~p.dead /\ p.loginText /\ ~p.navBar

detectCaptcha(p) ==
  \/ ~p.dead /\ p.captchaElem
  \/ ~p.dead /\ p.captchaText

detectRateLimit(p) ==
  \/ ~p.dead /\ p.rateElem
  \/ ~p.dead /\ p.rateText

\* detectProblems with the CAPTCHA check placed ahead of the login-wall check.
detectProblemsCaptchaFirst(p) ==
  IF detectCaptcha(p) THEN "captcha_detected"
  ELSE IF detectLoginRequired(p) THEN "login_required"
  ELSE IF detectRateLimit(p) THEN "rate_limited"
  ELSE "none"

\* ProblemDetector.detectProblems: priority login > captcha > rate limit.
\* After a positive CAPTCHA check getCaptchaHint queries the page again,
\* with no try: when that query throws, detectProblems throws.
detectProblems(p) ==
  IF detectLoginRequired(p) THEN "login_required"
  ELSE IF detectCaptcha(p)
  THEN IF p.hintThrows THEN "throws" ELSE "captcha_detected"
  ELSE IF detectRateLimit(p) THEN "rate_limited"
  ELSE "none"

\* ProblemDetector.hasRateLimit: the single rate-limit check, no precedence.
hasRateLimit(p) == detectRateLimit(p)

DetectorIdle == /\ dpage = CleanPage /\ verdict = "unset"

SessionIdle ==
  /\ cfg = [minDelay |-> 0, maxDelay |-> 0, pauseInterval |-> 0, pauseDuration |-> 0]
  /\ now = 0 /\ lastActionTime = 0 /\ sessionStartTime = 0 /\ actionsCount = 0
  /\ phase = "idle" /\ calledAt = -1 /\ restDue = FALSE
  /\ retPrev = -1 /\ retLast = -1

NoManager == [isInitialized |-> FALSE, context |-> 0, page |-> 0]

DispatchIdle ==
  /\ browserManager = "null" /\ mgr = NoManager /\ launched = 0 /\ alive = {}
  /\ callPc = <<>> /\ handed = <<>> /\ staleHanded = <<>> /\ diedIdle = FALSE
  /\ reply = <<>>

NoOutcome ==
  [status |-> "none", reason |-> "none", hint |-> "none", evidence |-> "none",
   current_url |-> "none", data |-> "none"]

\* No handler is running.
IdleInv ==
  [h |-> "none", hpc |-> "idle", args |-> "none",
   navResult |-> "none", pendReason |-> "none", pendHint |-> "none", i |-> 0,
   items |-> -1, total |-> -1, hasMore |-> FALSE,
   out |-> NoOutcome, escaped |-> FALSE,
   acts |-> <<>>, checkedClean |-> FALSE, actedUnchecked |-> FALSE,
   cleanSinceAct |-> FALSE, notLocated |-> FALSE,
   detected |-> "none", actedAfterDetect |-> FALSE,
   connectClicked |-> FALSE, rateSeen |-> FALSE,
   failed |-> {}, retried |-> FALSE, shots |-> 0,
   msgVisible |-> FALSE, pendVisible |-> FALSE,
   resting |-> FALSE, rested |-> FALSE, rests |-> 0,
   initialCount |-> -1, newResults |-> {}]

HandlersIdle ==
  /\ build = "part_008" /\ hasPage = FALSE /\ page = CleanPage /\ curUrl = "feed" /\ inv = IdleInv

CleanupIdle == /\ exitedBy = "none" /\ cleanupPc = <<>> /\ initPc = "none"

RestIdle == /\ caller = <<>> /\ prevRestEnd = -1 /\ lastRestEnd = -1

DelayIdle ==
  /\ delayRange = [min |-> 0, max |-> 0] /\ speedFactor = 100 /\ delay = -1
  /\ RestIdle

CloseIdle ==
  /\ closeThrew = FALSE /\ lastOp = "none" /\ closesInRow = 0
  /\ CleanupIdle /\ DelayIdle

\* A page is handed to the detector.
InitDetector ==
  /\ dpage \in Pages /\ verdict = "unset"
  /\ SessionIdle /\ DispatchIdle /\ HandlersIdle /\ CloseIdle

\* detectProblems(page) is evaluated.
Classify ==
  /\ verdict = "unset"
  /\ verdict' = detectProblems(dpage)
  /\ UNCHANGED <<dpage, svars, lvars, hvars, cvars>>

NextDetector == Classify

SpecDetector == InitDetector /\ [][NextDetector]_vars

(***************************************************************************)
(* Session scheduler                                                       *)
(***************************************************************************)

MaxDelay == 2          \* largest betweenActions bound drawn
MaxPauseInterval == 3  \* largest session.pauseInterval drawn
MaxPauseDuration == 2  \* largest session.pauseDuration drawn
SleepSlack == 1        \* a timer may fire this much later than asked
MaxTime == 9           \* the clock stops here

\* randomBetween(min, max) = floor(random * (max - min + 1)) + min, random in
\* [0, 1): the values it can produce.
randomBetween(lo, hi) == IF hi >= lo THEN lo..hi ELSE (hi + 1)..lo

\* randomDelay(config)
randomDelay(range) == randomBetween(range.min, range.max)

\* sleep(ms): resolves after at least ms.
sleep(ms) == {ms + over : over \in 0..SleepSlack}

\* beforeAction, the session pause: the time it asks to sleep.
restSleepNone(c, t0, sst) == 0
restSleep(c, t0, sst) ==
  IF t0 - sst > c.pauseInterval THEN c.pauseDuration ELSE 0

\* beforeAction, the minimum delay between actions: the time it asks to sleep.
gapSleepNone(c, t0, lat) == 0
gapSleep(c, t0, lat) ==
  IF t0 - lat < c.minDelay THEN c.minDelay - (t0 - lat) ELSE 0

Configs ==
  [minDelay : 1..MaxDelay, maxDelay : 1..MaxDelay,
   pauseInterval : 1..MaxPauseInterval, pauseDuration : 1..MaxPauseDuration]

\* new SessionManager(config): both clocks stamped at construction.
InitSession ==
  /\ cfg \in Configs
  /\ now = 0 /\ lastActionTime = 0 /\ sessionStartTime = 0 /\ actionsCount = 0
  /\ phase = "idle" /\ calledAt = -1 /\ restDue = FALSE
  /\ retPrev = -1 /\ retLast = -1
  /\ DetectorIdle /\ DispatchIdle /\ HandlersIdle /\ CloseIdle

\* SessionManager.beforeAction, from call to return.
beforeAction ==
  /\ phase = "idle"
  /\ LET t0 == now
         rest == restSleep(cfg, t0, sessionStartTime)
         gap == gapSleep(cfg, t0, lastActionTime)
     IN \E d1 \in (IF rest > 0 THEN sleep(rest) ELSE {0}),
           d2 \in (IF gap > 0 THEN sleep(gap) ELSE {0}) :
          /\ t0 + d1 + d2 <= MaxTime
          /\ actionsCount' = actionsCount + 1
          /\ sessionStartTime' =
               IF t0 - sessionStartTime > cfg.pauseInterval
               THEN t0 + d1 ELSE sessionStartTime
          /\ now' = t0 + d1 + d2
          /\ lastActionTime' = t0 + d1 + d2
          /\ calledAt' = t0
          /\ restDue' = (t0 - sessionStartTime > cfg.pauseInterval)
          /\ retPrev' = retLast
          /\ retLast' = t0 + d1 + d2
  /\ phase' = "acting"
  /\ UNCHANGED <<cfg, dvars, lvars, hvars, cvars>>

\* SessionManager.afterAction: randomSleep(betweenActions), then the stamp.
afterAction ==
  /\ phase = "acting"
  /\ \E ms \in randomDelay([min |-> cfg.minDelay, max |-> cfg.maxDelay]) :
       \E d \in sleep(ms) :
         /\ now + d <= MaxTime
         /\ now' = now + d
         /\ lastActionTime' = now + d
  /\ phase' = "idle"
  /\ UNCHANGED <<cfg, sessionStartTime, actionsCount, calledAt, restDue,
                 retPrev, retLast, dvars, lvars, hvars, cvars>>

\* The bracketed action throws, or navigate returns a detected problem:
\* afterAction is not reached.
ActionWithoutAfter ==
  /\ phase = "acting"
  /\ phase' = "idle"
  /\ UNCHANGED <<cfg, now, lastActionTime, sessionStartTime, actionsCount,
                 calledAt, restDue, retPrev, retLast, dvars, lvars, hvars, cvars>>

\* Time passes: the action itself runs, or the server waits for a tool call.
Tick ==
  /\ now < MaxTime
  /\ now' = now + 1
  /\ UNCHANGED <<cfg, lastActionTime, sessionStartTime, actionsCount, phase,
                 calledAt, restDue, retPrev, retLast, dvars, lvars, hvars, cvars>>

NextSession == beforeAction \/ afterAction \/ ActionWithoutAfter \/ Tick

SpecSession == InitSession /\ [][NextSession]_vars

(***************************************************************************)
(* Dispatcher and browser lifecycle                                        *)
(***************************************************************************)

MaxCalls == 3   \* tool calls that arrive

Calls == 1..MaxCalls

\* BrowserManager.isBrowserAlive: page and context held, and the probe
\* page.evaluate answers.
isBrowserAlive(m, live) ==
  /\ m.page # 0 /\ m.context # 0
  /\ m.page \in live

\* BrowserManager.resetState
resetState(m) == [isInitialized |-> FALSE, context |-> 0, page |-> 0]

\* BrowserManager.initialize up to its first suspension: an initialized
\* manager whose probe answers returns at once; otherwise the state is reset
\* (when it was flagged initialized) and a context is launched.
initializeEntry(m, live) ==
  IF m.isInitialized /\ isBrowserAlive(m, live)
  THEN [launch |-> FALSE, m |-> m]
  ELSE [launch |-> TRUE, m |-> IF m.isInitialized THEN resetState(m) ELSE m]

\* getBrowserManager: the manager is created and initialized only when the
\* singleton is null; otherwise it is returned as it is.
getBrowserManagerCreates(bm) == bm = "null"

InFlight == {c \in DOMAIN callPc : callPc[c] \in {"launching", "handler"}}

InitDispatch ==
  /\ browserManager = "null" /\ mgr = NoManager /\ launched = 0 /\ alive = {}
  /\ callPc = [c \in Calls |-> "new"]
  /\ handed = [c \in Calls |-> 0]
  /\ staleHanded = [c \in Calls |-> FALSE]
  /\ reply = [c \in Calls |-> "none"]
  /\ diedIdle = FALSE
  /\ DetectorIdle /\ SessionIdle /\ HandlersIdle /\ CloseIdle

\* getBrowserManager is called ahead of the toolHandlers lookup.
managerAcquiredFirst(bm) == "set"

\* The singleton after a request for a tool that toolHandlers does not
\* hold: the handler returns 'Unknown tool' before getBrowserManager is
\* reached.
managerAfterUnknownTool(bm) == bm

\* A request names a tool that is not in toolHandlers.
CallUnknownTool(c) ==
  /\ callPc[c] = "new"
  /\ callPc' = [callPc EXCEPT ![c] = "done"]
  /\ reply' = [reply EXCEPT ![c] = "unknown_tool"]
  /\ browserManager' = managerAfterUnknownTool(browserManager)
  /\ UNCHANGED <<mgr, launched, alive, handed, staleHanded,
                 diedIdle, dvars, svars, hvars, cvars>>

\* A request names a known tool: getBrowserManager runs; either it starts
\* initialize on a new manager, or it returns the existing manager and the
\* handler starts with it.
CallTool(c) ==
  /\ callPc[c] = "new"
  /\ IF getBrowserManagerCreates(browserManager)
     THEN LET e == initializeEntry(NoManager, alive)
          IN /\ browserManager' = "set"
             /\ mgr' = e.m
             /\ IF e.launch
                THEN /\ callPc' = [callPc EXCEPT ![c] = "launching"]
                     /\ UNCHANGED <<handed, staleHanded>>
                ELSE /\ callPc' = [callPc EXCEPT ![c] = "handler"]
                     /\ handed' = [handed EXCEPT ![c] = e.m.page]
                     /\ staleHanded' = [staleHanded EXCEPT ![c] = FALSE]
     ELSE /\ callPc' = [callPc EXCEPT ![c] = "handler"]
          /\ handed' = [handed EXCEPT ![c] = mgr.page]
          /\ staleHanded' = [staleHanded EXCEPT ![c] =
                               /\ mgr.isInitialized /\ mgr.page # 0
                               /\ mgr.page \notin alive /\ diedIdle]
          /\ UNCHANGED <<browserManager, mgr>>
  /\ UNCHANGED <<launched, alive, diedIdle, reply, dvars, svars, hvars, cvars>>

\* initialize: launchPersistentContext, the page and addInitScript succeed;
\* getBrowserManager returns and the handler starts.
InitializeOk(c) ==
  /\ callPc[c] = "launching"
  /\ launched' = launched + 1
  /\ alive' = alive \cup {launched + 1}
  /\ mgr' = [isInitialized |-> TRUE, context |-> launched + 1, page |-> launched + 1]
  /\ diedIdle' = FALSE
  /\ callPc' = [callPc EXCEPT ![c] = "handler"]
  /\ handed' = [handed EXCEPT ![c] = launched + 1]
  /\ UNCHANGED <<browserManager, staleHanded, reply, dvars, svars, hvars, cvars>>

\* initialize throws: at the launch (nothing held), at newPage (context
\* held, no page) or at addInitScript (context and page held); isInitialized
\* stays false and the dispatcher answers with an error.
InitializeFails(c) ==
  /\ callPc[c] = "launching"
  /\ \E stage \in {"launch", "newPage", "addInitScript"} :
       IF stage = "launch"
       THEN UNCHANGED <<mgr, launched, alive>>
       ELSE /\ launched' = launched + 1
            /\ alive' = alive \cup {launched + 1}
            /\ mgr' = [isInitialized |-> FALSE, context |-> launched + 1,
                       page |-> IF stage = "newPage" THEN 0 ELSE launched + 1]
  /\ callPc' = [callPc EXCEPT ![c] = "done"]
  /\ reply' = [reply EXCEPT ![c] = "error"]
  /\ UNCHANGED <<browserManager, handed, staleHanded, diedIdle, dvars, svars, hvars, cvars>>

\* The handler returns its result (or throws into the dispatcher's catch).
HandlerReturns(c) ==
  /\ callPc[c] = "handler"
  /\ callPc' = [callPc EXCEPT ![c] = "done"]
  /\ reply' = [reply EXCEPT ![c] = IF handed[c] = 0 THEN "error" ELSE "result"]
  /\ UNCHANGED <<browserManager, mgr, launched, alive, handed, staleHanded,
                 diedIdle, dvars, svars, hvars, cvars>>

\* The browser is closed from outside (crash, window closed, profile lock).
BrowserDies ==
  /\ alive # {}
  /\ \E id \in alive :
       /\ alive' = alive \ {id}
       /\ diedIdle' = (diedIdle \/ (id = mgr.page /\ InFlight = {}))
  /\ UNCHANGED <<browserManager, mgr, launched, callPc, handed, staleHanded,
                 reply, dvars, svars, hvars, cvars>>

NextDispatch ==
  \/ \E c \in Calls : CallUnknownTool(c)
  \/ \E c \in Calls : CallTool(c)
  \/ \E c \in Calls : InitializeOk(c)
  \/ \E c \in Calls : InitializeFails(c)
  \/ \E c \in Calls : HandlerReturns(c)
  \/ BrowserDies

SpecDispatch == InitDispatch /\ [][NextDispatch]_vars


(***************************************************************************)
(* Operation handlers                                                      *)
(*                                                                         *)
(* One invocation runs at a time, from its entry to its returned outcome,  *)
(* one suspension point per step.  Driver calls answer nondeterministically *)
(* (found or not, visible or not, returned or thrown), and the page may    *)
(* change between any two steps.                                           *)
(***************************************************************************)

MaxAmount == 2   \* largest amount argument of handleScroll drawn
MaxItems == 2    \* most result containers a search page shows

\* The pages a handler meets: clean, login wall, CAPTCHA, rate limit, and
\* CAPTCHA with rate-limit wording.
HandlerPages ==
  {CleanPage,
   [CleanPage EXCEPT !.urlAuthPath = TRUE],
   [CleanPage EXCEPT !.captchaElem = TRUE],
   [CleanPage EXCEPT !.rateText = TRUE],
   [CleanPage EXCEPT !.captchaElem = TRUE, !.rateText = TRUE]}

NoArgs ==
  [url |-> "missing", message |-> -1, profileUrl |-> "missing",
   selector |-> FALSE, text |-> FALSE, amount |-> 0, element |-> FALSE,
   limit |-> 0, limitGiven |-> FALSE, amountGiven |-> FALSE,
   direction |-> "omitted", navUrl |-> [host |-> "", rest |-> ""]]

\* Page actions that change the site's state.
StateChanging == {"click", "type", "scroll"}

ActKind(a) == a.kind

\* A page action is performed: it is recorded with what was known then, and
\* with whether sessionManager.beforeAction was awaited ahead of it and
\* sessionManager.afterAction behind it.
ActWith(s, kind, target, before, after) ==
  [s EXCEPT !.acts = Append(@, [kind |-> kind, target |-> target,
                                before |-> before, after |-> after]),
            !.actedUnchecked = @ \/ (kind \in StateChanging /\ ~s.checkedClean),
            !.cleanSinceAct = FALSE,
            !.actedAfterDetect = @ \/ (s.detected # "none"),
            !.retried = @ \/ (<<kind, target>> \in s.failed),
            !.rested = FALSE]

\* A click, type, scroll, wait or navigation throws or times out: the
\* attempt is remembered, and flagged when the same one had failed before.
Failed(s, kind, target) ==
  [s EXCEPT !.failed = @ \cup {<<kind, target>>},
            !.retried = @ \/ (<<kind, target>> \in s.failed),
            !.rested = FALSE]

\* BrowserManager.screenshot / screenshotElement returned an image.
Shot(s) == [s EXCEPT !.shots = @ + 1]

\* BrowserManager.click / type / scroll returning normally: beforeAction,
\* the human-like action, afterAction.
Act(s, kind, target) == ActWith(s, kind, target, TRUE, TRUE)

\* elementHandle.click(): the driver's click, with no SessionManager call.
DirectAct(s, kind, target) == ActWith(s, kind, target, FALSE, FALSE)

\* return JSON.stringify({status, ...})
Ret(s, status, reason, hint, evidence, data) ==
  [s EXCEPT !.hpc = "done",
            !.out = [status |-> status, reason |-> reason, hint |-> hint,
                     evidence |-> evidence, current_url |-> "none",
                     data |-> data]]

\* The repository holds two sources of BrowserManager: src/browser/index.ts
\* and the later one with the liveness probe (part_008).
Builds == {"index", "part_008"}

\* BrowserManager.screenshot / screenshotElement: the later source writes a
\* JPEG file and returns its path, src/browser/index.ts returns
\* buffer.toString('base64').
screenshot(b) == IF b = "part_008" THEN "file_path" ELSE "base64"

\* BrowserManager.getCurrentUrl: this.page?.url() || ''
getCurrentUrl(hp, u) == IF hp THEN u ELSE ""

\* ProblemReason
Taxonomy ==
  {"login_required", "captcha_detected", "rate_limited", "unexpected_ui",
   "element_not_found", "timeout", "navigation_failed", "network_error"}

\* getLoginHint / getCaptchaHint / getRateLimitHint: the hint detectProblems
\* returns with each reason.
detectorHint(reason) ==
  CASE reason = "login_required" -> "login_hint"
    [] reason = "captcha_detected" -> "captcha_hint"
    [] OTHER -> "rate_limit_hint"

\* No fallback: the hint argument as it came.
problemHintAsGiven(h, reason) == h

\* createProblemResponse: hint || `Problem detected: ${reason}...`
problemHint(h, reason) == IF h = "" THEN "problem_detected" ELSE h

\* return JSON.stringify({status: 'needs_human', reason, screenshot, hint,
\* current_url})
NeedsHuman(s, reason, hint, evidence, url) ==
  [Ret(s, "needs_human", reason, hint, evidence, "none")
     EXCEPT !.out.current_url = url]

\* An error outcome that carries a screenshot path.
ErrorOutWithShot(s) == Ret(s, "error", "none", "none", "file_path", "none")

\* return JSON.stringify({status: 'error', message})
ErrorOut(s) == Ret(s, "error", "none", "none", "none", "none")

\* return JSON.stringify({status: 'error', message: m})
ErrorMsg(s, m) == Ret(s, "error", "none", "none", "none", m)

\* An exception leaves the handler.
Escape(s) == [s EXCEPT !.hpc = "done", !.escaped = TRUE]

\* A handler starts with these arguments.
Start(tool, a) == [IdleInv EXCEPT !.h = tool, !.args = a]

At(tool, label) == inv.h = tool /\ inv.hpc = label

InitHandlers ==
  /\ build \in Builds
  /\ hasPage \in BOOLEAN
  /\ page \in HandlerPages
  /\ curUrl \in {"feed", "target", "lookalike"}
  /\ inv = IdleInv
  /\ DetectorIdle /\ SessionIdle /\ DispatchIdle /\ CloseIdle

\* The url arguments drawn for handleNavigate, as host and the rest.
NavUrls ==
  [host : {"www.linkedin.com", "example.com", "linkedin.com.example.net"},
   rest : {"/feed/", "/?next=linkedin.com"}]

\* The parts that hold the text 'linkedin.com'.
HoldsLinkedinCom ==
  {"www.linkedin.com", "linkedin.com.example.net", "/?next=linkedin.com"}

\* The URL is on LinkedIn: its host is linkedin.com or a subdomain of it.
isLinkedInUrl(u) == u.host \in {"linkedin.com", "www.linkedin.com"}

\* input.url.includes('linkedin.com'): the text anywhere in the URL.
includesLinkedin(u) == u.host \in HoldsLinkedinCom \/ u.rest \in HoldsLinkedinCom

\* handleNavigate up to its first await: args.url is read with .includes
\* before the try block.
handleNavigate ==
  /\ inv.h = "none"
  /\ \E given \in BOOLEAN, u \in NavUrls :
       LET s == Start("navigate",
                      IF given THEN [NoArgs EXCEPT !.url = "given", !.navUrl = u]
                      ELSE NoArgs)
       IN inv' = IF ~given THEN Escape(s)
                 ELSE IF ~includesLinkedin(u) THEN ErrorOut(s)
                 ELSE [s EXCEPT !.hpc = "nav"]
  /\ UNCHANGED <<build, hasPage, page, curUrl, dvars, svars, lvars, cvars>>

\* The handler checks the page again instead of going on.
afterDetectAgain(s) == [s EXCEPT !.hpc = "detect"]

\* As afterNavigate, but a failed navigation is tried once more.
afterNavigateAgain(s, res) ==
  IF res = "navigation_failed" /\ Len(s.acts) < 2
  THEN [s EXCEPT !.hpc = "nav"]
  ELSE IF s.h \in {"search", "profile", "connect", "navigate"}
  THEN IF res # "none"
       THEN [s EXCEPT !.hpc = "problem", !.pendReason = res, !.pendHint = ""]
       ELSE [s EXCEPT !.hpc = "detect"]
  ELSE [s EXCEPT !.hpc = "eval"]

\* Where the handler goes once BrowserManager.navigate has returned res
\* ("none": success).
afterNavigate(s, res) ==
  CASE s.h \in {"search", "profile", "connect"} ->
         IF res # "none"
         THEN [s EXCEPT !.hpc = "problem", !.pendReason = res, !.pendHint = ""]
         ELSE [s EXCEPT !.hpc = "detect"]
    [] s.h = "navigate" ->
         IF res # "none"
         THEN [s EXCEPT !.hpc = "problem", !.pendReason = res,
                        !.pendHint = "navigation_failed_hint"]
         ELSE [s EXCEPT !.hpc = "detect"]
    [] OTHER -> [s EXCEPT !.hpc = "eval"]

\* BrowserManager.navigate: getPage, beforeAction, goto, detectProblems,
\* afterAction; a throwing goto gives navigation_failed.  afterAction is
\* reached only when goto returned and the detector found nothing.
BrowserNavigate ==
  /\ inv.hpc = "nav"
  /\ IF ~hasPage
     THEN /\ inv' = ErrorOut(inv)
          /\ UNCHANGED <<page, curUrl>>
     ELSE \E gotoOk \in BOOLEAN, np \in HandlerPages :
            LET res == IF gotoOk THEN detectProblems(np) ELSE "navigation_failed"
                s0 == ActWith(inv, "navigate", "url", TRUE, gotoOk /\ res = "none")
                s1 == IF gotoOk THEN s0 ELSE Failed(s0, "navigate", "url")
                s2 == [s1 EXCEPT !.navResult = res,
                                 !.detected = IF gotoOk /\ res # "none" THEN res ELSE @,
                                 !.checkedClean = @ \/ (gotoOk /\ res = "none"),
                                 !.cleanSinceAct = gotoOk /\ res = "none"]
            IN /\ page' = np
               /\ curUrl' = IF ~gotoOk THEN curUrl
                            ELSE IF inv.h \in {"profile", "connect"} THEN "target"
                            ELSE "feed"
               /\ inv' = afterNavigate(s2, res)
  /\ UNCHANGED <<build, hasPage, dvars, svars, lvars, cvars>>

\* Where the handler goes once its own detectProblems call found nothing.
afterDetect(s) ==
  CASE s.h = "search" -> [s EXCEPT !.hpc = "results"]
    [] s.h = "profile" -> [s EXCEPT !.hpc = "name"]
    [] s.h = "connect" -> [s EXCEPT !.hpc = "buttons"]
    [] s.h = "scroll" -> [s EXCEPT !.hpc = "collect"]
    [] OTHER -> Ret(s, "success", "none", "none", "none", "current_url")

\* The handler's own check: detector.detectProblems(page).
HandlerDetect ==
  /\ inv.hpc = "detect"
  /\ LET r == detectProblems(page)
     IN inv' = IF r # "none"
               THEN [inv EXCEPT !.hpc = "problem", !.detected = r,
                                !.pendReason = r, !.pendHint = detectorHint(r)]
               ELSE afterDetect([inv EXCEPT !.checkedClean = TRUE,
                                            !.cleanSinceAct = TRUE])
  /\ UNCHANGED <<build, hasPage, page, curUrl, dvars, svars, lvars, cvars>>

\* createProblemResponse (and the same inline code of handleNavigate and
\* handleScroll, which pass the hint on as it is): a screenshot, then
\* needs_human; inside the handler's try, so a throwing screenshot ends in
\* the catch block's error outcome.
createProblemResponse ==
  /\ inv.hpc = "problem"
  /\ \E shotOk \in BOOLEAN :
       inv' = IF shotOk
              THEN NeedsHuman(Shot(inv), inv.pendReason,
                              IF inv.h \in {"navigate", "scroll"} THEN inv.pendHint
                              ELSE problemHint(inv.pendHint, inv.pendReason),
                              screenshot(build), getCurrentUrl(hasPage, curUrl))
              ELSE ErrorOut(inv)
  /\ UNCHANGED <<build, hasPage, page, curUrl, dvars, svars, lvars, cvars>>

DefaultLimit == 10
MaxLimit == 25

\* The limit arguments drawn; an omitted argument is held as 0 with
\* limitGiven false.
SearchLimits == {0, 1, MaxLimit, MaxLimit + 1}

Min(a, b) == IF a <= b THEN a ELSE b

\* Math.min((args.limit as number) || 10, 25): an omitted limit and a limit
\* of 0 both give the default.
searchLimit(l) == Min(IF l = 0 THEN DefaultLimit ELSE l, MaxLimit)

\* handleSearch up to its first await: the limit is clamped, never
\* rejected; getPage is called before the try.
handleSearch ==
  /\ inv.h = "none"
  /\ \E given \in BOOLEAN, l \in SearchLimits :
       LET s == Start("search", [NoArgs EXCEPT !.limit = l, !.limitGiven = given])
       IN /\ (~given => l = 0)
          /\ inv' = IF ~hasPage THEN Escape(s) ELSE [s EXCEPT !.hpc = "nav"]
  /\ UNCHANGED <<build, hasPage, page, curUrl, dvars, svars, lvars, cvars>>

\* handleSearch after the clean check: the results list ('main ul') is
\* awaited, then the no-results marker is looked for, otherwise
\* unexpected_ui.  n result containers are on the page.
SearchResults ==
  /\ At("search", "results")
  /\ \E hasResults \in BOOLEAN, noResults \in BOOLEAN, n \in 0..MaxItems :
       LET s0 == [inv EXCEPT !.items = n]
           s == IF hasResults THEN s0 ELSE Failed(s0, "wait", "results_list")
       IN inv' = IF hasResults THEN [s EXCEPT !.hpc = "parse"]
                 ELSE IF noResults
                 THEN [Ret(s, "success", "none", "none", "none", "empty")
                         EXCEPT !.total = 0]
                 ELSE [s EXCEPT !.hpc = "problem", !.pendReason = "unexpected_ui",
                                !.pendHint = "custom"]
  /\ UNCHANGED <<build, hasPage, page, curUrl, dvars, svars, lvars, cvars>>

\* parseSearchResults: page.evaluate returns at most limit items, or throws
\* into handleSearch's catch.
parseSearchResults ==
  /\ At("search", "parse")
  /\ \E ok \in BOOLEAN :
       LET n == Min(inv.items, searchLimit(inv.args.limit))
       IN inv' = IF ok
                 THEN [Ret(inv, "success", "none", "none", "none",
                           IF n = 0 THEN "empty" ELSE "results")
                         EXCEPT !.total = n,
                                !.hasMore = (n >= searchLimit(inv.args.limit))]
                 ELSE ErrorOut(inv)
  /\ UNCHANGED <<build, hasPage, page, curUrl, dvars, svars, lvars, cvars>>

\* handleProfile up to its first await: getPage is called before the try.
handleProfile ==
  /\ inv.h = "none"
  /\ LET s == Start("profile", [NoArgs EXCEPT !.profileUrl = "profile"])
     IN inv' = IF ~hasPage THEN Escape(s) ELSE [s EXCEPT !.hpc = "nav"]
  /\ UNCHANGED <<build, hasPage, page, curUrl, dvars, svars, lvars, cvars>>

\* handleProfile after the clean check: the profile name is awaited.
ProfileName ==
  /\ At("profile", "name")
  /\ \E hasName \in BOOLEAN :
       inv' = IF hasName THEN [inv EXCEPT !.hpc = "parse"]
              ELSE [Failed(Failed(inv, "wait", "name"), "wait", "name_alternative")
                      EXCEPT !.hpc = "problem", !.pendReason = "unexpected_ui",
                             !.pendHint = "custom"]
  /\ UNCHANGED <<build, hasPage, page, curUrl, dvars, svars, lvars, cvars>>

\* parseProfileData: a visible "see more" button of the about section is
\* clicked directly; then the data is returned, or a page query throws into
\* handleProfile's catch.
parseProfileData ==
  /\ At("profile", "parse")
  /\ \E seeMore \in BOOLEAN, ok \in BOOLEAN :
       LET s1 == IF seeMore THEN DirectAct(inv, "click", "see_more") ELSE inv
       IN inv' = IF ok THEN [s1 EXCEPT !.hpc = "contact"] ELSE ErrorOut(s1)
  /\ UNCHANGED <<build, hasPage, page, curUrl, dvars, svars, lvars, cvars>>

\* tryGetContactInfo: when the contact button is visible it is clicked
\* through browser.click and the modal is closed with a direct click
\* (closeButton.click()); every
\* throw inside is swallowed.  handleProfile then returns success.
tryGetContactInfo ==
  /\ At("profile", "contact")
  /\ \E visible \in BOOLEAN, clicked \in BOOLEAN, closed \in BOOLEAN :
       LET s1 == IF ~visible THEN inv
                 ELSE IF clicked THEN Act(inv, "click", "contact_info")
                 ELSE Failed(inv, "click", "contact_info")
           s2 == IF visible /\ clicked /\ closed
                 THEN DirectAct(s1, "click", "close_modal") ELSE s1
       IN inv' = Ret(s2, "success", "none", "none", "none", "profile")
  /\ UNCHANGED <<build, hasPage, page, curUrl, dvars, svars, lvars, cvars>>

\* handleScreenshot: everything is inside the try; screenshotElement gives
\* null when the element is missing.
handleScreenshot ==
  /\ inv.h = "none"
  /\ \E el \in BOOLEAN, r \in {"path", "null", "throws"} :
       LET s == Start("screenshot", [NoArgs EXCEPT !.element = el])
       IN /\ (r = "null" => el)
          /\ (~hasPage => r = "throws")
          /\ inv' = IF r = "path"
                    THEN Ret(Shot(s), "success", "none", "none", screenshot(build),
                             "screenshot")
                    ELSE ErrorOut(s)
  /\ UNCHANGED <<build, hasPage, page, curUrl, dvars, svars, lvars, cvars>>

\* handleClick up to its first await: the argument check, then getPage
\* before the try.
handleClick ==
  /\ inv.h = "none"
  /\ \E sel \in BOOLEAN, txt \in BOOLEAN :
       LET s == Start("click", [NoArgs EXCEPT !.selector = sel, !.text = txt])
       IN inv' = IF ~sel /\ ~txt THEN ErrorOut(s)
                 ELSE IF ~hasPage THEN Escape(s)
                 ELSE [s EXCEPT !.hpc = "find"]
  /\ UNCHANGED <<build, hasPage, page, curUrl, dvars, svars, lvars, cvars>>

\* handleType up to its first await: input.text.length is read for the log
\* line, then getPage, both before the try.
handleType ==
  /\ inv.h = "none"
  /\ \E sel \in BOOLEAN, txt \in BOOLEAN :
       LET s == Start("type", [NoArgs EXCEPT !.selector = sel, !.text = txt])
       IN inv' = IF ~txt THEN Escape(s)
                 ELSE IF ~hasPage THEN Escape(s)
                 ELSE [s EXCEPT !.hpc = "find"]
  /\ UNCHANGED <<build, hasPage, page, curUrl, dvars, svars, lvars, cvars>>

\* handleClick / handleType: page.$(selector), isVisible and
\* scrollIntoViewIfNeeded.  No element matches: error outcome ('Element not
\* found'); a throw goes to the catch block.
FindElement ==
  /\ inv.h \in {"click", "type"} /\ inv.hpc = "find"
  /\ \E r \in {"throws", "null", "found"} :
       /\ (inv.h = "type" /\ ~inv.args.selector => r = "throws")
       /\ inv' = CASE r = "throws" -> [inv EXCEPT !.hpc = "caught"]
                   [] r = "null" -> ErrorOut([inv EXCEPT !.notLocated = TRUE])
                   [] OTHER -> [inv EXCEPT !.hpc = "act"]
  /\ UNCHANGED <<build, hasPage, page, curUrl, dvars, svars, lvars, cvars>>

\* handleClick / handleType: browser.click or browser.type, then success;
\* a throw (element not found within the wait) goes to the catch block.
HumanAction ==
  /\ inv.h \in {"click", "type"} /\ inv.hpc = "act"
  /\ \E ok \in BOOLEAN :
       inv' = IF ok
              THEN Ret(Act(inv, inv.h, "selector"), "success", "none", "none",
                       "none", IF inv.h = "click" THEN "clicked" ELSE "typed")
              ELSE [Failed(inv, inv.h, "selector")
                      EXCEPT !.hpc = "caught", !.notLocated = TRUE]
  /\ UNCHANGED <<build, hasPage, page, curUrl, dvars, svars, lvars, cvars>>

\* The catch block of handleClick / handleType: a screenshot, then
\* needs_human element_not_found; a throwing screenshot leaves the handler.
CaughtResponse ==
  /\ inv.h \in {"click", "type"} /\ inv.hpc = "caught"
  /\ \E shotOk \in BOOLEAN :
       inv' = IF shotOk
              THEN NeedsHuman(Shot(inv), "element_not_found", "custom", screenshot(build),
                              getCurrentUrl(hasPage, curUrl))
              ELSE Escape(inv)
  /\ UNCHANGED <<build, hasPage, page, curUrl, dvars, svars, lvars, cvars>>

\* handleDebug up to its first await: getPage; there is no try block.
handleDebug ==
  /\ inv.h = "none"
  /\ \E u \in {"missing", "linkedin"} :
       LET s == Start("debug", [NoArgs EXCEPT !.url = u])
       IN inv' = IF ~hasPage THEN Escape(s)
                 ELSE IF u = "missing" THEN [s EXCEPT !.hpc = "eval"]
                 ELSE [s EXCEPT !.hpc = "nav"]
  /\ UNCHANGED <<build, hasPage, page, curUrl, dvars, svars, lvars, cvars>>

\* handleDebug: page.evaluate, the screenshot, then success; either throw
\* leaves the handler.
DebugEvaluate ==
  /\ At("debug", "eval")
  /\ \E evalOk \in BOOLEAN, shotOk \in BOOLEAN :
       inv' = IF evalOk /\ shotOk
              THEN Ret(Shot(inv), "success", "none", "none", screenshot(build),
                       "debug_info")
              ELSE Escape(inv)
  /\ UNCHANGED <<build, hasPage, page, curUrl, dvars, svars, lvars, cvars>>

DefaultScrollAmount == 3

\* (args.amount as number) || 3
scrollAmount(a) == IF a = 0 THEN DefaultScrollAmount ELSE a

\* (args.direction as 'down' | 'up') || 'down'
scrollDirection(d) == IF d = "omitted" THEN "down" ELSE d

\* handleScroll up to its first await: getPage is called before the try.
\* An omitted amount reads as 0 here (undefined || 3 and 0 || 3 are both 3).
handleScroll ==
  /\ inv.h = "none"
  /\ \E given \in BOOLEAN, a \in (-1)..MaxAmount, d \in {"omitted", "down", "up"} :
       LET s == Start("scroll", [NoArgs EXCEPT !.amount = a, !.amountGiven = given,
                                               !.direction = d])
       IN /\ (~given => a = 0)
          /\ inv' = IF ~hasPage THEN Escape(s) ELSE [s EXCEPT !.hpc = "count"]
  /\ UNCHANGED <<build, hasPage, page, curUrl, dvars, svars, lvars, cvars>>

\* The loop test of handleScroll: another scroll, or on to the check.
scrollLoop(s) ==
  IF s.i < scrollAmount(s.args.amount)
  THEN [s EXCEPT !.hpc = "scroll"]
  ELSE [s EXCEPT !.hpc = "detect"]

\* handleScroll: the initial page.$$ count.
ScrollCount ==
  /\ At("scroll", "count")
  /\ \E ok \in BOOLEAN, n \in 0..MaxItems :
       inv' = IF ok THEN scrollLoop([inv EXCEPT !.initialCount = n])
              ELSE ErrorOut(inv)
  /\ UNCHANGED <<build, hasPage, page, curUrl, dvars, svars, lvars, cvars>>

\* handleScroll, one loop body: browser.scroll, the wait, and the click on
\* a visible load-more button.
ScrollStep ==
  /\ At("scroll", "scroll")
  /\ \E scrolled \in BOOLEAN, loadMore \in {"absent", "clicked", "throws"} :
       inv' = IF ~scrolled
              THEN ErrorOut(Failed(inv, "scroll", scrollDirection(inv.args.direction)))
              ELSE LET s1 == Act(inv, "scroll", scrollDirection(inv.args.direction))
                   IN CASE loadMore = "throws" ->
                             ErrorOut(Failed(s1, "click", "load_more"))
                        [] loadMore = "clicked" ->
                             scrollLoop([Act(s1, "click", "load_more")
                                           EXCEPT !.i = @ + 1])
                        [] OTHER -> scrollLoop([s1 EXCEPT !.i = @ + 1])
  /\ UNCHANGED <<build, hasPage, page, curUrl, dvars, svars, lvars, cvars>>

\* Every position of the list is handed to the parser.
newPositionsAll(initialCount, newCount) == 0..(newCount - 1)

\* for (let i = initialCount; i < newCount; i++): the positions of
\* allResults that are handed to parseResultItem.
newPositions(initialCount, newCount) == initialCount..(newCount - 1)

\* handleScroll after the clean check: page.$$ gives the items now on the
\* page, and those at the new positions are parsed; an item that parses to
\* null or throws is left out.
ScrollCollect ==
  /\ At("scroll", "collect")
  /\ \E ok \in BOOLEAN, n \in 0..MaxItems :
       \E parsed \in SUBSET newPositions(inv.initialCount, n) :
         inv' = IF ok
                THEN [Ret(inv, "success", "none", "none", "none", "new_results")
                        EXCEPT !.items = n, !.total = n, !.newResults = parsed]
                ELSE ErrorOut(inv)
  /\ UNCHANGED <<build, hasPage, page, curUrl, dvars, svars, lvars, cvars>>

\* currentUrl.includes(extractUsername(profile_url)): a profile_url without
\* /in/<name> gives the empty string, which every URL includes.
alreadyThere(profileUrl, url) ==
  \/ profileUrl = "nomatch"
  \/ url \in {"target", "lookalike"}

MaxMessage == 300

\* The message arguments drawn, by their length; -1 stands for an omitted
\* message.
MessageLengths == {-1, 0, MaxMessage, MaxMessage + 1}

\* A validation that rejects nothing.
messageTooLongNever(len) == FALSE

\* input.message && input.message.length > 300
messageTooLong(len) == len > 0 /\ len > MaxMessage

\* handleConnect up to its first await: the message-length check, getPage
\* before the try, then (inside the try) extractUsername and the decision
\* to navigate.
handleConnect ==
  /\ inv.h = "none"
  /\ \E pu \in {"missing", "profile", "nomatch"}, m \in MessageLengths :
       LET s == Start("connect", [NoArgs EXCEPT !.profileUrl = pu, !.message = m])
       IN inv' = IF messageTooLong(m) THEN ErrorMsg(s, "message_too_long")
                 ELSE IF ~hasPage THEN Escape(s)
                 ELSE IF pu = "missing" THEN ErrorOut(s)
                 ELSE IF alreadyThere(pu, curUrl) THEN [s EXCEPT !.hpc = "detect"]
                 ELSE [s EXCEPT !.hpc = "nav"]
  /\ UNCHANGED <<build, hasPage, page, curUrl, dvars, svars, lvars, cvars>>

\* The Pending button is looked at before the Message button.
connectionStatePendingFirst(msgVis, pendVis) ==
  IF pendVis THEN "pending" ELSE IF msgVis THEN "already_connected" ELSE "none"

\* 'Check if already connected or pending': the Message button first, then
\* the Pending button ("none": neither is visible).
connectionState(msgVis, pendVis) ==
  IF msgVis THEN "already_connected" ELSE IF pendVis THEN "pending" ELSE "none"

\* handleConnect after the clean check: Message button, Pending button,
\* the Connect button, the More dropdown, in that order.  msgVis and
\* pendVis are what the page shows at that moment.
ConnectButtons ==
  /\ At("connect", "buttons")
  /\ \E throws \in BOOLEAN, msgVis \in BOOLEAN, pendVis \in BOOLEAN,
        direct \in BOOLEAN, more \in BOOLEAN :
       LET s == [inv EXCEPT !.msgVisible = msgVis, !.pendVisible = pendVis]
       IN inv' = IF throws THEN ErrorOut(inv)
                 ELSE IF connectionState(msgVis, pendVis) # "none"
                 THEN Ret(s, "success", "none", "none", "none",
                          connectionState(msgVis, pendVis))
                 ELSE IF direct THEN [s EXCEPT !.hpc = "click_connect"]
                 ELSE IF more THEN [s EXCEPT !.hpc = "click_more"]
                 ELSE [s EXCEPT !.hpc = "problem", !.pendReason = "element_not_found",
                                !.pendHint = "custom", !.notLocated = TRUE]
  /\ UNCHANGED <<build, hasPage, page, curUrl, dvars, svars, lvars, cvars>>

\* handleConnect: browser.click on the More button, then the dropdown's
\* Connect entry is looked up.
ConnectMore ==
  /\ At("connect", "click_more")
  /\ \E ok \in BOOLEAN, inDropdown \in BOOLEAN :
       inv' = IF ~ok THEN ErrorOut(Failed(inv, "click", "more"))
              ELSE LET s1 == Act(inv, "click", "more")
                   IN IF inDropdown THEN [s1 EXCEPT !.hpc = "click_connect"]
                      ELSE [s1 EXCEPT !.hpc = "problem",
                                      !.pendReason = "element_not_found",
                                      !.pendHint = "custom", !.notLocated = TRUE]
  /\ UNCHANGED <<build, hasPage, page, curUrl, dvars, svars, lvars, cvars>>

\* handleConnect: browser.click on Connect (direct or in the dropdown).
ConnectClick ==
  /\ At("connect", "click_connect")
  /\ \E ok \in BOOLEAN :
       inv' = IF ~ok THEN ErrorOut(Failed(inv, "click", "connect"))
              ELSE [Act(inv, "click", "connect")
                      EXCEPT !.hpc = "ratelimit", !.connectClicked = TRUE,
                             !.rateSeen = hasRateLimit(page)]
  /\ UNCHANGED <<build, hasPage, page, curUrl, dvars, svars, lvars, cvars>>

\* handleConnect: the one rate-limit check, after the wait for the modal.
ConnectRateLimit ==
  /\ At("connect", "ratelimit")
  /\ inv' = IF hasRateLimit(page)
            THEN Ret(inv, "success", "none", "none", "none", "limit_reached")
            ELSE IF inv.args.message > 0 THEN [inv EXCEPT !.hpc = "note"]
            ELSE [inv EXCEPT !.hpc = "send"]
  /\ UNCHANGED <<build, hasPage, page, curUrl, dvars, svars, lvars, cvars>>

\* handleConnect: "Add a note" is clicked when visible and the message is
\* typed when the textarea is found.
ConnectNote ==
  /\ At("connect", "note")
  /\ \E addNote \in {"absent", "clicked", "throws"},
        textarea \in {"absent", "typed", "throws"} :
       inv' = CASE addNote = "absent" -> [inv EXCEPT !.hpc = "send"]
                [] addNote = "throws" -> ErrorOut(Failed(inv, "click", "add_note"))
                [] OTHER ->
                     LET s1 == Act(inv, "click", "add_note")
                     IN CASE textarea = "absent" -> [s1 EXCEPT !.hpc = "send"]
                          [] textarea = "throws" ->
                               ErrorOut(Failed(s1, "type", "note"))
                          [] OTHER -> [Act(s1, "type", "note") EXCEPT !.hpc = "send"]
  /\ UNCHANGED <<build, hasPage, page, curUrl, dvars, svars, lvars, cvars>>

\* handleConnect: after the pause, the Send button is looked up and
\* clicked; no button gives element_not_found.
ConnectSend ==
  /\ At("connect", "send")
  /\ \E send \in {"absent", "clicked", "throws"} :
       inv' = CASE send = "absent" ->
                     [inv EXCEPT !.hpc = "problem",
                                 !.pendReason = "element_not_found",
                                 !.pendHint = "custom", !.notLocated = TRUE]
                [] send = "throws" -> ErrorOut(Failed(inv, "click", "send"))
                [] OTHER -> [Act(inv, "click", "send") EXCEPT !.hpc = "verify"]
  /\ UNCHANGED <<build, hasPage, page, curUrl, dvars, svars, lvars, cvars>>

\* handleConnect: the modal is checked; an open modal with an error message
\* gives an error outcome, otherwise success.
ConnectVerify ==
  /\ At("connect", "verify")
  /\ \E failed \in BOOLEAN :
       inv' = IF failed THEN ErrorOut(inv)
              ELSE Ret(inv, "success", "none", "none", "none", "sent")
  /\ UNCHANGED <<build, hasPage, page, curUrl, dvars, svars, lvars, cvars>>

\* The site changes what the page shows while the handler is suspended.
PageChanges ==
  /\ inv.h # "none" /\ inv.hpc # "done"
  /\ \E np \in HandlerPages \ {page} :
       /\ page' = np
       /\ inv' = [inv EXCEPT !.rateSeen =
                    @ \/ (/\ inv.connectClicked
                          /\ \A k \in DOMAIN inv.acts : inv.acts[k].target # "send"
                          /\ hasRateLimit(np))]
  /\ UNCHANGED <<build, hasPage, curUrl, dvars, svars, lvars, cvars>>

\* The dispatcher takes the outcome; the next tool call may start.
Finish ==
  /\ inv.hpc = "done"
  /\ inv' = IdleInv
  /\ UNCHANGED <<build, hasPage, page, curUrl, dvars, svars, lvars, cvars>>

NextHandlers ==
  \/ handleNavigate
  \/ handleSearch
  \/ SearchResults
  \/ parseSearchResults
  \/ handleProfile
  \/ ProfileName
  \/ parseProfileData
  \/ tryGetContactInfo
  \/ handleScreenshot
  \/ handleClick
  \/ handleType
  \/ FindElement
  \/ HumanAction
  \/ CaughtResponse
  \/ handleDebug
  \/ DebugEvaluate
  \/ handleScroll
  \/ ScrollCount
  \/ ScrollStep
  \/ ScrollCollect
  \/ handleConnect
  \/ ConnectButtons
  \/ ConnectMore
  \/ ConnectClick
  \/ ConnectRateLimit
  \/ ConnectNote
  \/ ConnectSend
  \/ ConnectVerify
  \/ BrowserNavigate
  \/ HandlerDetect
  \/ createProblemResponse
  \/ PageChanges
  \/ Finish

SpecHandlers == InitHandlers /\ [][NextHandlers]_vars

\* The steps at which the handler's next call is BrowserManager.navigate,
\* click, type or scroll, each of which starts with beforeAction.
ActingSteps ==
  {"nav", "act", "scroll", "click_more", "click_connect", "note", "send",
   "contact"}

\* beforeAction finds the session older than pauseInterval and sleeps for
\* pauseDuration: the handler is suspended in it.
SessionRest ==
  /\ inv.h # "none" /\ inv.hpc \in ActingSteps
  /\ ~inv.resting /\ ~inv.rested
  /\ inv' = [inv EXCEPT !.resting = TRUE, !.rested = TRUE, !.rests = @ + 1]
  /\ UNCHANGED <<build, hasPage, page, curUrl, dvars, svars, lvars, cvars>>

\* The rest's sleep ends and beforeAction goes on.
RestOver ==
  /\ inv.resting
  /\ inv' = [inv EXCEPT !.resting = FALSE]
  /\ UNCHANGED <<build, hasPage, page, curUrl, dvars, svars, lvars, cvars>>

\* The steps inside a handler invocation, from its first await to its
\* return.
HandlerProgress ==
  \/ SearchResults \/ parseSearchResults
  \/ ProfileName \/ parseProfileData \/ tryGetContactInfo
  \/ FindElement \/ HumanAction \/ CaughtResponse
  \/ DebugEvaluate
  \/ ScrollCount \/ ScrollStep \/ ScrollCollect
  \/ ConnectButtons \/ ConnectMore \/ ConnectClick \/ ConnectRateLimit
  \/ ConnectNote \/ ConnectSend \/ ConnectVerify
  \/ BrowserNavigate \/ HandlerDetect \/ createProblemResponse

NextTermination ==
  \/ ~inv.resting /\ NextHandlers
  \/ SessionRest
  \/ RestOver

\* Every driver call returns or times out and every timer fires, so a
\* handler that can take its next step takes it, and a rest ends.  Tool
\* calls and changes of the page are not owed.
SpecTermination ==
  /\ InitHandlers /\ [][NextTermination]_vars
  /\ WF_vars(~inv.resting /\ HandlerProgress)
  /\ WF_vars(RestOver)


(***************************************************************************)
(* BrowserManager.close                                                    *)
(*                                                                         *)
(* A manager is initialized, its context may be closed from outside, and   *)
(* close() is called any number of times.  The driver's context.close()    *)
(* may throw when the context is already gone.                             *)
(***************************************************************************)

MaxLaunches == 4   \* contexts launched
MaxCloses == 3     \* close() calls in a row

\* BrowserManager.close on manager m of build b; driverThrows: the driver's
\* context.close() throws.  The later source catches it; src/browser/index.ts
\* has no try, so the throw leaves close() before the fields are cleared.
close(b, m, driverThrows) ==
  IF m.context = 0
  THEN [m |-> [m EXCEPT !.isInitialized = FALSE], threw |-> FALSE]
  ELSE IF driverThrows /\ b = "index"
  THEN [m |-> m, threw |-> TRUE]
  ELSE [m |-> NoManager, threw |-> FALSE]

InitClose ==
  /\ build \in Builds
  /\ hasPage = FALSE /\ page = CleanPage /\ curUrl = "feed" /\ inv = IdleInv
  /\ DetectorIdle /\ SessionIdle /\ DispatchIdle /\ CloseIdle

\* initialize on a manager that holds nothing: the launch succeeds, or
\* newPage or addInitScript throws and leaves the context (and the page)
\* held with isInitialized false.
Initialize ==
  /\ mgr.context = 0 /\ ~mgr.isInitialized
  /\ launched < MaxLaunches
  /\ \E stage \in {"ok", "newPage", "addInitScript"} :
       mgr' = [isInitialized |-> stage = "ok", context |-> launched + 1,
               page |-> IF stage = "newPage" THEN 0 ELSE launched + 1]
  /\ launched' = launched + 1
  /\ alive' = alive \cup {launched + 1}
  /\ lastOp' = "initialize" /\ closesInRow' = 0 /\ closeThrew' = FALSE
  /\ UNCHANGED <<browserManager, callPc, handed, staleHanded, diedIdle, reply,
                 dvars, svars, hvars, pvars, rvars, bvars>>

\* The context is closed from outside (the user closes the window, the
\* browser crashes).
ContextClosedExternally ==
  /\ \E id \in alive : alive' = alive \ {id}
  /\ UNCHANGED <<browserManager, mgr, launched, callPc, handed, staleHanded,
                 diedIdle, reply, dvars, svars, hvars, cvars>>

\* close() is called (cleanup, or any other caller).
Close ==
  /\ closesInRow < MaxCloses
  /\ \E driverThrows \in BOOLEAN :
       LET gone == mgr.context # 0 /\ mgr.context \notin alive
           r == close(build, mgr, driverThrows)
       IN /\ (driverThrows => gone)
          /\ mgr' = r.m
          /\ closeThrew' = r.threw
          /\ alive' = IF driverThrows THEN alive ELSE alive \ {mgr.context}
  /\ lastOp' = "close"
  /\ closesInRow' = closesInRow + 1
  /\ UNCHANGED <<browserManager, launched, callPc, handed, staleHanded, diedIdle,
                 reply, dvars, svars, hvars, pvars, rvars, bvars>>

NextClose == Initialize \/ ContextClosedExternally \/ Close

SpecClose == InitClose /\ [][NextClose]_vars


(***************************************************************************)
(* Delay ranges                                                            *)
(*                                                                         *)
(* A range is configured (defaults or MIN_ACTION_DELAY / MAX_ACTION_DELAY, *)
(* each read on its own), scaled by the session factor, and randomDelay    *)
(* draws from it.                                                          *)
(***************************************************************************)

MaxBound == 4   \* largest configured delay bound drawn

\* sessionSpeedFactor = 0.7 + Math.random() * 0.6, in percent: both ends and
\* the middle.
SpeedFactors == {70, 100, 130}

\* createDelayConfig: min and max are read independently, nothing orders
\* them.
DelayRanges == [min : 0..MaxBound, max : 0..MaxBound]

\* Math.round(x * sessionSpeedFactor), for x >= 0
roundScaled(x, pct) == (x * pct + 50) \div 100

\* loadConfig's applyFactor
applyFactor(range, pct) ==
  [min |-> roundScaled(range.min, pct), max |-> roundScaled(range.max, pct)]

InitDelay ==
  /\ delayRange \in DelayRanges
  /\ speedFactor \in SpeedFactors
  /\ delay = -1
  /\ RestIdle
  /\ DetectorIdle /\ SessionIdle /\ DispatchIdle /\ HandlersIdle
  /\ closeThrew = FALSE /\ lastOp = "none" /\ closesInRow = 0
  /\ CleanupIdle

\* randomDelay / randomSleep on the scaled range.
DrawDelay ==
  /\ delay' \in randomDelay(applyFactor(delayRange, speedFactor))
  /\ UNCHANGED <<dvars, svars, lvars, hvars, closeThrew, lastOp, closesInRow,
                 pvars, bvars, delayRange, speedFactor>>

NextDelay == DrawDelay

SpecDelay == InitDelay /\ [][NextDelay]_vars


(***************************************************************************)
(* beforeAction under overlapping tool calls                               *)
(*                                                                         *)
(* The dispatcher runs the handlers of overlapping requests interleaved    *)
(* at their awaits, and all of them share one SessionManager.  Here        *)
(* beforeAction is split at its two sleeps.                                *)
(***************************************************************************)

MaxCallers == 2    \* tool calls in flight together
MaxRestTime == 7   \* the clock stops here

Callers == 1..MaxCallers

RestConfigs ==
  [minDelay : 0..1, maxDelay : {1}, pauseInterval : 1..2, pauseDuration : 1..2]

IdleCaller == [pc |-> "idle", t0 |-> 0, wake |-> 0]

InitRest ==
  /\ cfg \in RestConfigs
  /\ now = 0 /\ lastActionTime = 0 /\ sessionStartTime = 0 /\ actionsCount = 0
  /\ phase = "idle" /\ calledAt = -1 /\ restDue = FALSE
  /\ retPrev = -1 /\ retLast = -1
  /\ caller = [c \in Callers |-> IdleCaller]
  /\ prevRestEnd = -1 /\ lastRestEnd = -1
  /\ DetectorIdle /\ DispatchIdle /\ HandlersIdle
  /\ closeThrew = FALSE /\ lastOp = "none" /\ closesInRow = 0
  /\ CleanupIdle
  /\ delayRange = [min |-> 0, max |-> 0] /\ speedFactor = 100 /\ delay = -1

\* beforeAction from 'Ensure minimum delay between actions' on, for a call
\* that read the clock at t0: it sleeps for the rest of the floor, or stamps
\* lastActionTime and returns.
minimumDelayStep(c, t0) ==
  LET gap == gapSleep(cfg, t0, lastActionTime)
  IN IF gap > 0
     THEN /\ caller' = [caller EXCEPT ![c] =
                          [pc |-> "gapping", t0 |-> t0, wake |-> now + gap]]
          /\ UNCHANGED lastActionTime
     ELSE /\ caller' = [caller EXCEPT ![c] = IdleCaller]
          /\ lastActionTime' = now

\* beforeAction is called: the counter, the clock, the session-pause test.
BeforeActionCall(c) ==
  /\ caller[c].pc = "idle"
  /\ actionsCount < MaxRestTime
  /\ actionsCount' = actionsCount + 1
  /\ IF restSleep(cfg, now, sessionStartTime) > 0
     THEN /\ caller' = [caller EXCEPT ![c] =
                          [pc |-> "resting", t0 |-> now,
                           wake |-> now + restSleep(cfg, now, sessionStartTime)]]
          /\ UNCHANGED lastActionTime
     ELSE minimumDelayStep(c, now)
  /\ UNCHANGED <<cfg, now, sessionStartTime, phase, calledAt, restDue, retPrev,
                 retLast, prevRestEnd, lastRestEnd, dvars, lvars, hvars,
                 closeThrew, lastOp, closesInRow, pvars, rvars>>

\* The rest's sleep is over: the session clock is reset, then the minimum
\* delay is computed from the clock value read before the rest.
RestEnds(c) ==
  /\ caller[c].pc = "resting" /\ now >= caller[c].wake
  /\ sessionStartTime' = now
  /\ prevRestEnd' = lastRestEnd
  /\ lastRestEnd' = now
  /\ minimumDelayStep(c, caller[c].t0)
  /\ UNCHANGED <<cfg, now, actionsCount, phase, calledAt, restDue, retPrev,
                 retLast, dvars, lvars, hvars, closeThrew, lastOp, closesInRow,
                 pvars, rvars>>

\* The minimum-delay sleep is over: lastActionTime is stamped.
GapEnds(c) ==
  /\ caller[c].pc = "gapping" /\ now >= caller[c].wake
  /\ lastActionTime' = now
  /\ caller' = [caller EXCEPT ![c] = IdleCaller]
  /\ UNCHANGED <<cfg, now, sessionStartTime, actionsCount, phase, calledAt,
                 restDue, retPrev, retLast, prevRestEnd, lastRestEnd, dvars,
                 lvars, hvars, closeThrew, lastOp, closesInRow, pvars, rvars>>

\* Time passes.
RestTick ==
  /\ now < MaxRestTime
  /\ now' = now + 1
  /\ UNCHANGED <<cfg, lastActionTime, sessionStartTime, actionsCount, phase,
                 calledAt, restDue, retPrev, retLast, dvars, lvars, hvars, cvars>>

NextRest ==
  \/ \E c \in Callers : BeforeActionCall(c)
  \/ \E c \in Callers : RestEnds(c)
  \/ \E c \in Callers : GapEnds(c)
  \/ RestTick

SpecRest == InitRest /\ [][NextRest]_vars


(***************************************************************************)
(* Signals and cleanup                                                     *)
(*                                                                         *)
(* One tool call may create the manager and run initialize; SIGINT and     *)
(* SIGTERM each start cleanup(), which awaits browserManager.close() and   *)
(* then calls process.exit(0).  A rejected cleanup() is an unhandled       *)
(* rejection: the runtime either ends the process or only warns.           *)
(***************************************************************************)

MaxSignals == 2   \* signals delivered

Signals == 1..MaxSignals

Running == exitedBy = "none"

InitCleanup ==
  /\ build \in Builds
  /\ hasPage = FALSE /\ page = CleanPage /\ curUrl = "feed" /\ inv = IdleInv
  /\ DetectorIdle /\ SessionIdle /\ DispatchIdle
  /\ closeThrew = FALSE /\ lastOp = "none" /\ closesInRow = 0
  /\ exitedBy = "none"
  /\ cleanupPc = [s \in Signals |-> "pending"]
  /\ initPc = "none"
  /\ DelayIdle

\* getBrowserManager on the first tool call: the singleton is assigned,
\* then initialize is awaited.
GetBrowserManager ==
  /\ Running /\ getBrowserManagerCreates(browserManager) /\ initPc = "none"
  /\ browserManager' = "set"
  /\ initPc' = "launching"
  /\ UNCHANGED <<mgr, launched, alive, callPc, handed, staleHanded, diedIdle,
                 reply, dvars, svars, hvars, rvars, bvars, closeThrew, lastOp, closesInRow,
                 exitedBy, cleanupPc>>

\* initialize: launchPersistentContext resolves and this.context is
\* assigned, or it rejects.
LaunchReturns ==
  /\ Running /\ initPc = "launching"
  /\ \E ok \in BOOLEAN :
       IF ok
       THEN /\ launched' = launched + 1
            /\ alive' = alive \cup {launched + 1}
            /\ mgr' = [mgr EXCEPT !.context = launched + 1]
            /\ initPc' = "newPage"
       ELSE /\ initPc' = "failed"
            /\ UNCHANGED <<mgr, launched, alive>>
  /\ UNCHANGED <<browserManager, callPc, handed, staleHanded, diedIdle, reply,
                 dvars, svars, hvars, rvars, bvars, closeThrew, lastOp, closesInRow,
                 exitedBy, cleanupPc>>

\* initialize: the page is taken from this.context and the init script is
\* added; both throw when the context is gone or was set to null by close.
PageReady ==
  /\ Running /\ initPc = "newPage"
  /\ IF mgr.context # 0 /\ mgr.context \in alive
     THEN /\ mgr' = [isInitialized |-> TRUE, context |-> mgr.context,
                     page |-> mgr.context]
          /\ initPc' = "ready"
     ELSE /\ initPc' = "failed"
          /\ UNCHANGED mgr
  /\ UNCHANGED <<browserManager, launched, alive, callPc, handed, staleHanded,
                 diedIdle, reply, dvars, svars, hvars, rvars, bvars, closeThrew, lastOp,
                 closesInRow, exitedBy, cleanupPc>>

\* The browser goes away while the process runs.
BrowserGone == Running /\ ContextClosedExternally

\* SIGINT or SIGTERM: cleanup() runs up to its first suspension.  Without a
\* manager it exits at once; with a manager that holds no context close()
\* runs through; otherwise context.close() is awaited.
Signal(s) ==
  /\ Running /\ cleanupPc[s] = "pending"
  /\ IF browserManager = "null"
     THEN /\ exitedBy' = "cleanup"
          /\ cleanupPc' = [cleanupPc EXCEPT ![s] = "done"]
          /\ UNCHANGED mgr
     ELSE IF mgr.context = 0
     THEN /\ mgr' = close(build, mgr, FALSE).m
          /\ cleanupPc' = [cleanupPc EXCEPT ![s] = "closed"]
          /\ UNCHANGED exitedBy
     ELSE /\ cleanupPc' = [cleanupPc EXCEPT ![s] = "closing"]
          /\ UNCHANGED <<mgr, exitedBy>>
  /\ UNCHANGED <<browserManager, launched, alive, callPc, handed, staleHanded,
                 diedIdle, reply, dvars, svars, hvars, rvars, bvars, closeThrew, lastOp,
                 closesInRow, initPc>>

\* The awaited context.close() settles and close() runs to its end, or the
\* rejection leaves close() and cleanup().
CloseReturns(s) ==
  /\ Running /\ cleanupPc[s] = "closing"
  /\ \E driverThrows \in BOOLEAN :
       LET r == close(build, [mgr EXCEPT !.context = launched], driverThrows)
       IN /\ (driverThrows => launched \notin alive)
          /\ mgr' = IF r.threw THEN mgr ELSE r.m
          /\ alive' = IF driverThrows THEN alive ELSE alive \ {launched}
          /\ cleanupPc' = [cleanupPc EXCEPT ![s] =
                             IF r.threw THEN "rejected" ELSE "closed"]
  /\ UNCHANGED <<browserManager, launched, callPc, handed, staleHanded, diedIdle,
                 reply, dvars, svars, hvars, rvars, bvars, closeThrew, lastOp, closesInRow,
                 exitedBy, initPc>>

\* cleanup(): process.exit(0) after close() returned.
Exit(s) ==
  /\ Running /\ cleanupPc[s] = "closed"
  /\ exitedBy' = "cleanup"
  /\ cleanupPc' = [cleanupPc EXCEPT ![s] = "done"]
  /\ UNCHANGED <<lvars, dvars, svars, hvars, rvars, bvars, closeThrew, lastOp, closesInRow,
                 initPc>>

\* The rejected cleanup() promise has no handler: the runtime ends the
\* process, or it prints a warning and goes on.
UnhandledRejection(s) ==
  /\ Running /\ cleanupPc[s] = "rejected"
  /\ \E crash \in BOOLEAN :
       exitedBy' = IF crash THEN "crash" ELSE "none"
  /\ cleanupPc' = [cleanupPc EXCEPT ![s] = "unhandled"]
  /\ UNCHANGED <<lvars, dvars, svars, hvars, rvars, bvars, closeThrew, lastOp, closesInRow,
                 initPc>>

NextCleanup ==
  \/ GetBrowserManager
  \/ LaunchReturns
  \/ PageReady
  \/ BrowserGone
  \/ \E s \in Signals : Signal(s)
  \/ \E s \in Signals : CloseReturns(s)
  \/ \E s \in Signals : Exit(s)
  \/ \E s \in Signals : UnhandledRejection(s)

\* Every awaited promise settles and every continuation runs; signals, tool
\* calls and the browser's death are not owed.
SpecCleanup ==
  /\ InitCleanup /\ [][NextCleanup]_vars
  /\ WF_vars(\E s \in Signals : CloseReturns(s))
  /\ WF_vars(\E s \in Signals : Exit(s))
  /\ WF_vars(\E s \in Signals : UnhandledRejection(s))


(***************************************************************************)
(* Properties                                                              *)
(***************************************************************************)

\* C2: whenever the login-wall check is true of the classified page,
\* detectProblems returns login_required, whatever the CAPTCHA and rate-limit
\* checks say.
C2_LoginPrecedence ==
  (verdict # "unset" /\ detectLoginRequired(dpage)) => verdict = "login_required"

\* A page showing a login wall, a CAPTCHA and a rate-limit banner at once has
\* been classified.
C2_Witness ==
  /\ verdict = "login_required"
  /\ ~dpage.dead /\ dpage.loginFormVisible /\ dpage.captchaElem /\ dpage.rateText

Returned == inv.hpc = "done"

SendClicked == \E k \in DOMAIN inv.acts : inv.acts[k].target = "send"

\* C1: every handler invocation ends in an outcome whose status is success,
\* needs_human or error, and no exception leaves the handler.
C1_TriState ==
  Returned => /\ ~inv.escaped
              /\ inv.out.status \in {"success", "needs_human", "error"}

\* C3: in handleConnect, once a rate-limit signal has been present after the
\* Connect click and before a Send click, Send is never clicked and the
\* invocation reports the limit outcome.
C3_NoSendAfterRateLimit ==
  (inv.h = "connect" /\ inv.rateSeen) =>
    /\ ~SendClicked
    /\ (Returned => inv.out.data = "limit_reached")

\* C4: no click, type or scroll is issued in an invocation before the
\* detector has classified the page as free of adverse state in it.
C4_CheckBeforeAct == ~inv.actedUnchecked

\* C5: once an adverse state is detected in an invocation, the handler
\* performs no further page action and returns needs_human with that reason.
C5_DetectionShortCircuits ==
  inv.detected # "none" =>
    /\ ~inv.actedAfterDetect
    /\ (Returned => /\ inv.out.status = "needs_human"
                    /\ inv.out.reason = inv.detected)

\* C6: the instants at which two consecutive beforeAction calls return are
\* at least betweenActions.min apart.
C6_MinGap ==
  retPrev # -1 => retLast - retPrev >= cfg.minDelay

\* Two consecutive beforeAction calls returned exactly the floor apart, with
\* the largest floor drawn.
C6_Witness ==
  /\ retPrev # -1 /\ cfg.minDelay = MaxDelay
  /\ retLast - retPrev = cfg.minDelay

\* C7: a beforeAction called when the session has lasted longer than
\* pauseInterval returns no sooner than pauseDuration after the call.
C7_RestBlocks ==
  (calledAt # -1 /\ restDue) => retLast - calledAt >= cfg.pauseDuration

\* A beforeAction that found the rest due has returned, after an earlier one.
C7_Witness ==
  /\ restDue /\ retPrev # -1 /\ cfg.pauseDuration = MaxPauseDuration
  /\ retLast - calledAt >= cfg.pauseDuration

\* C8: a page that died while no tool call was running is never the page
\* handed to the handler of a later tool call.
C8_NoStaleHandle ==
  \A c \in DOMAIN callPc : ~staleHanded[c]

\* C9: every handler that starts was given a manager whose page exists.
C9_HandlerHasPage ==
  \A c \in DOMAIN callPc : callPc[c] = "handler" => handed[c] # 0

\* C10: at most one context is launched and held, and at most one handler
\* runs at a time.
C10_SerialAccess ==
  /\ launched <= 1
  /\ Cardinality({c \in DOMAIN callPc :
                     callPc[c] = "handler" /\ handed[c] # 0}) <= 1

\* C11: every click, type, scroll and navigation performed during a handler
\* invocation is preceded by SessionManager.beforeAction and followed by
\* SessionManager.afterAction, on every path.
C11_ActionsBracketed ==
  \A k \in DOMAIN inv.acts : inv.acts[k].before /\ inv.acts[k].after

\* C12: handleSearch on a page the detector found clean and that holds zero
\* result containers does not return needs_human, and a success it returns
\* reports total_results = 0.
C12_EmptySearchSucceeds ==
  (inv.h = "search" /\ inv.items = 0 /\ Returned) =>
     /\ inv.out.status # "needs_human"
     /\ (inv.out.status = "success" => inv.total = 0)

\* C14: handleSearch with a limit above 25 performs no navigation and
\* returns an error outcome.
C14_LimitRejected ==
  (inv.h = "search" /\ inv.args.limit > MaxLimit) =>
     /\ inv.acts = <<>>
     /\ (Returned /\ ~inv.escaped => inv.out.status = "error")

\* C13: handleConnect with a message longer than 300 returns an error
\* outcome with no navigation, click, type or detector check; a message of
\* length 300 or less, or no message, is not rejected by the length check.
C13_MessageLength ==
  inv.h = "connect" =>
     IF inv.args.message > MaxMessage
     THEN /\ Returned /\ ~inv.escaped
          /\ inv.out.status = "error"
          /\ inv.acts = <<>>
          /\ ~inv.checkedClean /\ inv.detected = "none"
     ELSE inv.out.data # "message_too_long"

\* A 301-long message was rejected.
C13_Witness ==
  /\ inv.h = "connect" /\ inv.args.message = MaxMessage + 1
  /\ Returned /\ inv.out.data = "message_too_long"

\* C15: every success outcome comes after a detector classification that
\* found the page clean and that was made after the invocation's last
\* navigation, click, type or scroll.
C15_SuccessCheckedClean ==
  (Returned /\ ~inv.escaped /\ inv.out.status = "success") => inv.cleanSinceAct

C17_NoInlineImage ==
  Returned => inv.out.evidence # "base64"

\* C18: close() never throws and always leaves the manager closed (context
\* and page null, isInitialized false), also when the context was already
\* closed from outside and when it is called again.
C18_CloseIdempotent ==
  lastOp = "close" => /\ ~closeThrew /\ mgr = NoManager

\* C19: when the target element of handleClick, handleType or of
\* handleConnect's Connect / Send lookup cannot be located, the outcome is
\* needs_human with reason element_not_found or unexpected_ui.
C19_NotFoundNeedsHuman ==
  (Returned /\ inv.notLocated) =>
     /\ ~inv.escaped
     /\ inv.out.status = "needs_human"
     /\ inv.out.reason \in {"element_not_found", "unexpected_ui"}

\* C20: handleNavigate navigates only when the url argument is a LinkedIn
\* URL; for any other url it returns an error outcome and performs no page
\* action (hence no SessionManager call).
C20_OnlyLinkedIn ==
  (inv.h = "navigate" /\ inv.args.url = "given"
     /\ ~isLinkedInUrl(inv.args.navUrl)) =>
        /\ inv.acts = <<>>
        /\ (Returned => ~inv.escaped /\ inv.out.status = "error")

\* The limit the caller asked for: min(limit, 25), 10 when none was given.
RequestedLimit == IF inv.args.limitGiven THEN Min(inv.args.limit, MaxLimit) ELSE DefaultLimit

\* C21: a successful handleSearch returns at most min(limit, 25) results (10
\* when limit is omitted) and has_more is true only when that many were
\* returned.
C21_LimitHonoured ==
  (inv.h = "search" /\ Returned /\ inv.out.status = "success") =>
     /\ inv.total <= RequestedLimit
     /\ (inv.hasMore => inv.total >= RequestedLimit)

C23_TotalClassification ==
  verdict # "unset" =>
     LET l == detectLoginRequired(dpage)
         c == detectCaptcha(dpage)
         r == detectRateLimit(dpage)
     IN /\ (verdict = "login_required") <=> l
        /\ (verdict = "captcha_detected") <=> (~l /\ c)
        /\ (verdict = "rate_limited") <=> (~l /\ ~c /\ r)
        /\ (verdict = "none") <=> (~l /\ ~c /\ ~r)

\* C24: the login-wall check is true exactly when the URL holds an
\* authentication path, or a login container is visible, or the text holds
\* an authentication phrase and the navigation chrome is absent; a page
\* whose queries all fail is classified by its URL alone.
C24_LoginWallCheck ==
  verdict # "unset" =>
     ((verdict = "login_required") <=>
        \/ dpage.urlAuthPath
        \/ ~dpage.dead /\ dpage.loginFormVisible
        \/ ~dpage.dead /\ dpage.loginText /\ ~dpage.navBar)

\* A page with an authentication phrase and the navigation chrome, no login
\* URL and no login container, was classified, and not as a login wall.
C24_Witness ==
  /\ verdict \notin {"unset", "login_required"}
  /\ ~dpage.dead /\ dpage.loginText /\ dpage.navBar
  /\ ~dpage.urlAuthPath /\ ~dpage.loginFormVisible

\* C25: when an adverse state was detected, by BrowserManager.navigate or by
\* the handler's own check, the needs_human outcome carries the hint the
\* detector produced for that reason.
C25_DetectorHintKept ==
  (Returned /\ inv.out.status = "needs_human" /\ inv.detected # "none") =>
     inv.out.hint = detectorHint(inv.detected)

\* C26: every value randomDelay produces for a configured range lies between
\* the range's bounds scaled by the session factor.
C26_DelayWithinRange ==
  delay # -1 =>
     LET scaled == applyFactor(delayRange, speedFactor)
     IN scaled.min <= delay /\ delay <= scaled.max

\* C27: between the ends of two consecutive rests at least pauseInterval
\* elapses.
C27_RestsApart ==
  prevRestEnd # -1 => lastRestEnd - prevRestEnd >= cfg.pauseInterval

Navigations == {k \in DOMAIN inv.acts : inv.acts[k].kind = "navigate"}

\* C28: a handler invocation navigates at most once, and never repeats a
\* click, type, scroll, wait or navigation that failed on the same target.
C28_NothingRetried ==
  inv.h # "none" => /\ Cardinality(Navigations) <= 1
                    /\ ~inv.retried

\* A handler returned after navigating once and having one of its later
\* actions fail.
C28_Witness ==
  /\ Returned /\ Cardinality(Navigations) = 1
  /\ \E f \in inv.failed : f[1] \in {"click", "type"}

\* C29: an error outcome, from a handler or from the dispatcher's catch,
\* carries no screenshot, reason or hint, and no screenshot was taken on
\* the way to it.
C29_ErrorWithoutEvidence ==
  (Returned /\ (inv.out.status = "error" \/ inv.escaped)) =>
    /\ inv.out.evidence = "none"
    /\ inv.out.reason = "none"
    /\ inv.out.hint = "none"
    /\ inv.shots = 0

\* An error outcome produced after the handler had acted on the page.
C29_Witness ==
  Returned /\ inv.out.status = "error" /\ inv.acts # <<>> /\ inv.failed # {}

ScrollsDone == {k \in DOMAIN inv.acts : inv.acts[k].kind = "scroll"}

RequestedScrolls ==
  IF ~inv.args.amountGiven THEN DefaultScrollAmount
  ELSE IF inv.args.amount < 0 THEN 0 ELSE inv.args.amount

\* C30: a successful handleScroll has scrolled exactly amount times (3 when
\* amount is omitted), each time in the requested direction (down when
\* omitted).
C30_ExactScrolls ==
  (inv.h = "scroll" /\ Returned /\ inv.out.status = "success") =>
    /\ Cardinality(ScrollsDone) = RequestedScrolls
    /\ \A k \in ScrollsDone :
         inv.acts[k].target = scrollDirection(inv.args.direction)

ConnectOrSendClicked ==
  \E k \in DOMAIN inv.acts :
    inv.acts[k].kind = "click" /\ inv.acts[k].target \in {"connect", "send"}

\* C31: handleConnect clicks Connect or Send only while the page shown is
\* the profile named by profile_url.
C31_ClicksOnNamedProfile ==
  (inv.h = "connect" /\ ConnectOrSendClicked) => curUrl = "target"

SendClicks == {k \in DOMAIN inv.acts : inv.acts[k].target = "send"}

\* The Send button lookup of this invocation found no button.
SendNotFound == inv.connectClicked /\ inv.pendReason = "element_not_found"

\* C32: in a handleConnect invocation Send is clicked at most once, only
\* after the clean check and a Connect click; when no Send button is found
\* the outcome is needs_human element_not_found and Send is not clicked.
C32_SendOnceAfterConnect ==
  inv.h = "connect" =>
    /\ Cardinality(SendClicks) <= 1
    /\ \A k \in SendClicks :
         /\ inv.checkedClean
         /\ \E j \in 1..(k - 1) : inv.acts[j].target = "connect"
    /\ SendNotFound =>
         /\ SendClicks = {}
         /\ (Returned => /\ inv.out.status = "needs_human"
                         /\ inv.out.reason = "element_not_found")

ClicksOrTypes ==
  {k \in DOMAIN inv.acts : inv.acts[k].kind \in {"click", "type"}}

\* C33: when handleConnect finds a visible Message button it returns success
\* already_connected, when it finds only a visible Pending button it returns
\* success pending, and in both cases it has not clicked or typed.
C33_AlreadyConnectedOrPending ==
  (inv.h = "connect" /\ (inv.msgVisible \/ inv.pendVisible)) =>
    /\ Returned
    /\ inv.out.status = "success"
    /\ inv.out.data = (IF inv.msgVisible THEN "already_connected" ELSE "pending")
    /\ ClicksOrTypes = {}

\* Both buttons were visible, on a profile the handler had navigated to.
C33_Witness ==
  /\ inv.h = "connect" /\ Returned /\ inv.msgVisible /\ inv.pendVisible
  /\ Navigations # {}

\* No request for a known tool has been taken up yet.
OnlyUnknownSoFar ==
  \A c \in DOMAIN callPc : callPc[c] = "new" \/ reply[c] = "unknown_tool"

\* Request c is answered 'Unknown tool' in this step.
AnswersUnknown(c) == reply[c] # "unknown_tool" /\ reply'[c] = "unknown_tool"

C35_InvocationReturns == (inv.h # "none") ~> Returned

\* A handleScroll invocation returned after resting before each of its
\* scrolls.
C35_Witness ==
  inv.h = "scroll" /\ Returned /\ inv.rests >= 2 /\ Cardinality(ScrollsDone) >= 2

\* C36: in a success outcome of handleScroll, total_loaded is the number of
\* items on the page after scrolling, every item of new_results sits at a
\* position at or beyond the count taken before scrolling, new_results is
\* no longer than max(0, total_loaded - initial count), and it is empty
\* when the count did not grow.
C36_NewResultsAreNew ==
  (inv.h = "scroll" /\ Returned /\ inv.out.status = "success") =>
    /\ inv.total = inv.items
    /\ \A p \in inv.newResults : inv.initialCount <= p /\ p < inv.total
    /\ Cardinality(inv.newResults) <=
         (IF inv.total > inv.initialCount THEN inv.total - inv.initialCount ELSE 0)
    /\ (inv.total <= inv.initialCount => inv.newResults = {})

\* Items were on the page before scrolling and new ones were returned.
C36_Witness ==
  /\ inv.h = "scroll" /\ Returned /\ inv.out.status = "success"
  /\ inv.initialCount > 0 /\ inv.newResults # {}

====
